---- MODULE Spec2Model ----
(***************************************************************************)
(* Model of connect_to_eth.py: the two connectors connect_to_eth and       *)
(* connect_with_middleware and the demonstration entry point that calls    *)
(* them in sequence.  Every statement of the script that touches the       *)
(* network, the descriptor file or a handle is one action; pc is the line  *)
(* about to be executed.  The web3 library is the environment: a liveness  *)
(* check or a chain query answers nondeterministically.                    *)
(***************************************************************************)
EXTENDS Integers, Sequences, FiniteSets, TLC

VARIABLES pc, file, conns, log, out, exc,
          w3, d, address, abi, checksum_address, contract,
          w3_eth, w3_bnb, contract_bnb

vars == <<pc, file, conns, log, out, exc,
          w3, d, address, abi, checksum_address, contract,
          w3_eth, w3_bnb, contract_bnb>>

(* ---------------- bounds ---------------- *)
\* number of hex digits of an address (40 on the real network)
AddrLen == 2
\* longest "abi" array of a descriptor
MaxAbi == 2

(* ---------------- values ---------------- *)
\* Python's None for a handle variable
None == 0
url == "https://eth.llamarpc.com"
bsc_url == "https://data-seed-prebsc-1-s1.binance.org:8545/"
ExtraDataToPOAMiddleware == "ExtraDataToPOAMiddleware"
\* the middleware onion of a freshly built Web3 object, innermost layer first
DefaultOnion == <<"validation", "attrdict">>

EmptyDict == [k \in {} |-> <<>>]
NoContract == [w3 |-> None, address |-> <<>>, abi |-> <<>>]
NoExc == [type |-> "none", fn |-> "none", line |-> 0]
NoFile == [state |-> "unread", doc |-> EmptyDict]

(* ---------------- addresses ---------------- *)
LowerHex == {"1", "a", "b"}
UpperHex == {"A", "B"}
\* "g" is not a hex digit
AddrChars == LowerHex \cup UpperHex \cup {"g"}

Lower(c) == CASE c = "A" -> "a" [] c = "B" -> "b" [] OTHER -> c
Upper(c) == CASE c = "a" -> "A" [] c = "b" -> "B" [] OTHER -> c
Code(c) == CASE c = "1" -> 1 [] c = "a" -> 10 [] c = "b" -> 11 [] OTHER -> 0

RECURSIVE SumCodes(_)
SumCodes(s) == IF s = <<>> THEN 0 ELSE Code(Head(s)) + SumCodes(Tail(s))

\* nibble i of the digest of the lowercase address; the digest is keccak-256
\* in the library, here a small mixing function with the same role
HashNibble(a, i) == (7 * Code(a[i]) + 3 * i + SumCodes(a)) % 16

to_normalized_address(a) == [i \in 1..Len(a) |-> Lower(a[i])]
is_address(a) == /\ Len(a) = AddrLen
                 /\ \A i \in 1..Len(a) : a[i] \in LowerHex
\* Web3.to_checksum_address raises ValueError unless this holds
IsValidAddress(a) == is_address(to_normalized_address(a))

to_checksum_address(a) ==
    LET n == to_normalized_address(a)
    IN  [i \in 1..Len(n) |-> IF HashNibble(n, i) >= 8 THEN Upper(n[i]) ELSE n[i]]

(* ---------------- descriptors ---------------- *)
SeqsUpTo(S, n) == UNION {[1..k -> S] : k \in 0..n}
Addresses == [1..AddrLen -> AddrChars] \cup [1..(AddrLen - 1) -> AddrChars]
\* an ABI entry: the function merkleRoot, another function, or an entry the
\* library's ABI validation rejects
AbiEntries == {"merkleRoot", "owner", "malformed"}
Abis == SeqsUpTo(AbiEntries, MaxAbi)
validate_abi(a) == \A i \in 1..Len(a) : a[i] # "malformed"

FullEntries == {[k \in {"address", "abi"} |-> IF k = "address" THEN a ELSE b] :
                   a \in Addresses, b \in Abis}
SampleAddress == [i \in 1..AddrLen |-> "a"]
PartialEntries == {EmptyDict,
                   [k \in {"address"} |-> SampleAddress],
                   [k \in {"abi"} |-> <<"merkleRoot">>]}
Entries == FullEntries \cup PartialEntries
Docs == {[k \in {"bsc"} |-> e] : e \in Entries}
          \cup {EmptyDict, [k \in {"eth"} |-> CHOOSE e \in FullEntries : TRUE]}
\* what open() and json.load() find at the path
Files == {[state |-> "missing", doc |-> EmptyDict],
          [state |-> "malformed", doc |-> EmptyDict]}
          \cup {[state |-> "ok", doc |-> x] : x \in Docs}

(* ---------------- helpers ---------------- *)
Event(call, op, conn, ok) == [call |-> call, op |-> op, conn |-> conn, ok |-> ok]
NewConn(u) == [url |-> u, onion |-> DefaultOnion]
\* middleware_onion.inject(m, layer): layer 0 is the innermost position
inject(onion, m, layer) ==
    SubSeq(onion, 1, layer) \o <<m>> \o SubSeq(onion, layer + 1, Len(onion))

\* an uncaught exception ends the run
Raise(type, fn, line) ==
    /\ pc' = "crashed"
    /\ exc' = [type |-> type, fn |-> fn, line |-> line]

Init ==
    /\ pc = "main_82"
    /\ file = NoFile
    /\ conns = <<>>
    /\ log = <<>>
    /\ out = <<>>
    /\ exc = NoExc
    /\ w3 = None
    /\ d = EmptyDict
    /\ address = <<>>
    /\ abi = <<>>
    /\ checksum_address = <<>>
    /\ contract = NoContract
    /\ w3_eth = None
    /\ w3_bnb = None
    /\ contract_bnb = NoContract

(* ---------------- connect_to_eth ---------------- *)
\* lines 82-86: banner, then the call
main_call_connect_to_eth ==
    /\ pc = "main_82"
    /\ out' = Append(out, "Testing Ethereum Mainnet Connection")
    /\ log' = Append(log, Event("connect_to_eth", "call", None, TRUE))
    /\ w3' = None
    /\ pc' = "cte_29"
    /\ UNCHANGED <<file, conns, exc, d, address, abi, checksum_address,
                   contract, w3_eth, w3_bnb, contract_bnb>>

\* line 29: w3 = Web3(HTTPProvider(url))
connect_to_eth_construct ==
    /\ pc = "cte_29"
    /\ conns' = Append(conns, NewConn(url))
    /\ w3' = Len(conns) + 1
    /\ log' = Append(log, Event("connect_to_eth", "Web3", Len(conns) + 1, TRUE))
    /\ pc' = "cte_32"
    /\ UNCHANGED <<file, out, exc, d, address, abi, checksum_address,
                   contract, w3_eth, w3_bnb, contract_bnb>>

\* line 32 without the assertion: the answer is ignored
connect_to_eth_verify_no_assert ==
    /\ pc = "cte_32"
    /\ \E live \in BOOLEAN :
         log' = Append(log, Event("connect_to_eth", "is_connected", w3, live))
    /\ pc' = "cte_34"
    /\ UNCHANGED <<file, conns, out, exc, w3, d, address, abi, checksum_address,
                   contract, w3_eth, w3_bnb, contract_bnb>>

\* line 32 with one retry of the liveness check before giving up
connect_to_eth_verify_retry ==
    /\ pc = "cte_32"
    /\ \E live \in BOOLEAN :
         /\ log' = Append(log, Event("connect_to_eth", "is_connected", w3, live))
         /\ IF live
              THEN pc' = "cte_34" /\ UNCHANGED exc
              ELSE IF \E i \in 1..Len(log) : log[i].op = "is_connected"
                     THEN Raise("AssertionError", "connect_to_eth", 32)
                     ELSE pc' = "cte_32" /\ UNCHANGED exc
    /\ UNCHANGED <<file, conns, out, w3, d, address, abi, checksum_address,
                   contract, w3_eth, w3_bnb, contract_bnb>>

\* line 32: assert w3.is_connected()
connect_to_eth_verify ==
    /\ pc = "cte_32"
    /\ \E live \in BOOLEAN :
         /\ log' = Append(log, Event("connect_to_eth", "is_connected", w3, live))
         /\ IF live
              THEN pc' = "cte_34" /\ UNCHANGED exc
              ELSE Raise("AssertionError", "connect_to_eth", 32)
    /\ UNCHANGED <<file, conns, out, w3, d, address, abi, checksum_address,
                   contract, w3_eth, w3_bnb, contract_bnb>>

\* line 34 and the assignment of line 86
connect_to_eth_return ==
    /\ pc = "cte_34"
    /\ w3_eth' = w3
    /\ pc' = "main_87"
    /\ UNCHANGED <<file, conns, log, out, exc, w3, d, address, abi,
                   checksum_address, contract, w3_bnb, contract_bnb>>

(* ---------------- entry point, mainnet part ---------------- *)
\* line 87: print(w3_eth.is_connected()); the result is printed, not asserted
main_print_eth_connected ==
    /\ pc = "main_87"
    /\ \E live \in BOOLEAN :
         /\ log' = Append(log, Event("main", "is_connected", w3_eth, live))
         /\ out' = Append(out, IF live THEN "Connected to Ethereum: True"
                                       ELSE "Connected to Ethereum: False")
    /\ pc' = "main_88"
    /\ UNCHANGED <<file, conns, exc, w3, d, address, abi, checksum_address,
                   contract, w3_eth, w3_bnb, contract_bnb>>

\* line 88 with the failure of the query swallowed
main_eth_chain_id_swallowed ==
    /\ pc = "main_88"
    /\ \E ok \in BOOLEAN :
         /\ log' = Append(log, Event("main", "chain_id", w3_eth, ok))
         /\ out' = IF ok THEN Append(out, "Chain ID") ELSE out
    /\ pc' = "main_91"
    /\ UNCHANGED <<file, conns, exc, w3, d, address, abi, checksum_address,
                   contract, w3_eth, w3_bnb, contract_bnb>>

\* line 88: print(w3_eth.eth.chain_id); the query raises when the request fails
main_eth_chain_id ==
    /\ pc = "main_88"
    /\ \E ok \in BOOLEAN :
         /\ log' = Append(log, Event("main", "chain_id", w3_eth, ok))
         /\ IF ok
              THEN /\ out' = Append(out, "Chain ID")
                   /\ pc' = "main_91"
                   /\ UNCHANGED exc
              ELSE /\ Raise("RequestError", "main", 88)
                   /\ UNCHANGED out
    /\ UNCHANGED <<file, conns, w3, d, address, abi, checksum_address,
                   contract, w3_eth, w3_bnb, contract_bnb>>

\* lines 91-93: latest_block = w3_eth.eth.get_block('latest') and its prints
main_eth_get_block ==
    /\ pc = "main_91"
    /\ \E ok \in BOOLEAN :
         /\ log' = Append(log, Event("main", "get_block", w3_eth, ok))
         /\ IF ok
              THEN /\ out' = out \o <<"Latest block number", "Latest block timestamp">>
                   /\ pc' = "main_95"
                   /\ UNCHANGED exc
              ELSE /\ Raise("RequestError", "main", 91)
                   /\ UNCHANGED out
    /\ UNCHANGED <<file, conns, w3, d, address, abi, checksum_address,
                   contract, w3_eth, w3_bnb, contract_bnb>>

(* ---------------- connect_with_middleware ---------------- *)
\* lines 95-102: banner, then the call with the descriptor path
main_call_connect_with_middleware ==
    /\ pc = "main_95"
    /\ out' = Append(out, "Testing BNB Testnet Connection")
    /\ log' = Append(log, Event("connect_with_middleware", "call", None, TRUE))
    /\ w3' = None
    /\ pc' = "cwm_48"
    /\ UNCHANGED <<file, conns, exc, d, address, abi, checksum_address,
                   contract, w3_eth, w3_bnb, contract_bnb>>

\* lines 48-49 moved after the connection: connect and check first, then read
connect_with_middleware_load_after_connect ==
    /\ pc = "cwm_48"
    /\ conns' = Append(conns, NewConn(bsc_url))
    /\ log' = log \o <<Event("connect_with_middleware", "Web3", Len(conns) + 1, TRUE),
                       Event("connect_with_middleware", "is_connected", Len(conns) + 1, TRUE)>>
    /\ \E f \in Files :
         /\ file' = f
         /\ CASE f.state = "missing" ->
                   Raise("FileNotFoundError", "connect_with_middleware", 48) /\ UNCHANGED d
              [] f.state = "malformed" ->
                   Raise("JSONDecodeError", "connect_with_middleware", 49) /\ UNCHANGED d
              [] OTHER ->
                   d' = f.doc /\ pc' = "cwm_50" /\ UNCHANGED exc
    /\ UNCHANGED <<out, w3, address, abi, checksum_address,
                   contract, w3_eth, w3_bnb, contract_bnb>>

\* lines 48-49: open(contract_json) and d = json.load(f)
connect_with_middleware_load ==
    /\ pc = "cwm_48"
    /\ \E f \in Files :
         /\ file' = f
         /\ CASE f.state = "missing" ->
                   Raise("FileNotFoundError", "connect_with_middleware", 48) /\ UNCHANGED d
              [] f.state = "malformed" ->
                   Raise("JSONDecodeError", "connect_with_middleware", 49) /\ UNCHANGED d
              [] OTHER ->
                   d' = f.doc /\ pc' = "cwm_50" /\ UNCHANGED exc
    /\ UNCHANGED <<conns, log, out, w3, address, abi, checksum_address,
                   contract, w3_eth, w3_bnb, contract_bnb>>

\* line 50: d = d['bsc']
connect_with_middleware_bsc ==
    /\ pc = "cwm_50"
    /\ IF "bsc" \in DOMAIN d
         THEN d' = d["bsc"] /\ pc' = "cwm_51" /\ UNCHANGED exc
         ELSE Raise("KeyError", "connect_with_middleware", 50) /\ UNCHANGED d
    /\ UNCHANGED <<file, conns, log, out, w3, address, abi, checksum_address,
                   contract, w3_eth, w3_bnb, contract_bnb>>

\* line 51 with the address validated as soon as it is read
connect_with_middleware_address_validated_early ==
    /\ pc = "cwm_51"
    /\ IF "address" \in DOMAIN d
         THEN IF IsValidAddress(d["address"])
                THEN address' = d["address"] /\ pc' = "cwm_52" /\ UNCHANGED exc
                ELSE Raise("ValueError", "connect_with_middleware", 51) /\ UNCHANGED address
         ELSE Raise("KeyError", "connect_with_middleware", 51) /\ UNCHANGED address
    /\ UNCHANGED <<file, conns, log, out, w3, d, abi, checksum_address,
                   contract, w3_eth, w3_bnb, contract_bnb>>

\* line 51: address = d['address']
connect_with_middleware_address ==
    /\ pc = "cwm_51"
    /\ IF "address" \in DOMAIN d
         THEN address' = d["address"] /\ pc' = "cwm_52" /\ UNCHANGED exc
         ELSE Raise("KeyError", "connect_with_middleware", 51) /\ UNCHANGED address
    /\ UNCHANGED <<file, conns, log, out, w3, d, abi, checksum_address,
                   contract, w3_eth, w3_bnb, contract_bnb>>

\* line 52 keeping only the entry the entry point reads
connect_with_middleware_abi_filtered ==
    /\ pc = "cwm_52"
    /\ IF "abi" \in DOMAIN d
         THEN /\ abi' = LET IsRead(e) == e = "merkleRoot" IN SelectSeq(d["abi"], IsRead)
              /\ pc' = "cwm_62"
              /\ UNCHANGED exc
         ELSE Raise("KeyError", "connect_with_middleware", 52) /\ UNCHANGED abi
    /\ UNCHANGED <<file, conns, log, out, w3, d, address, checksum_address,
                   contract, w3_eth, w3_bnb, contract_bnb>>

\* line 52: abi = d['abi']
connect_with_middleware_abi ==
    /\ pc = "cwm_52"
    /\ IF "abi" \in DOMAIN d
         THEN abi' = d["abi"] /\ pc' = "cwm_62" /\ UNCHANGED exc
         ELSE Raise("KeyError", "connect_with_middleware", 52) /\ UNCHANGED abi
    /\ UNCHANGED <<file, conns, log, out, w3, d, address, checksum_address,
                   contract, w3_eth, w3_bnb, contract_bnb>>

\* line 62: w3 = Web3(HTTPProvider(bsc_url))
connect_with_middleware_construct ==
    /\ pc = "cwm_62"
    /\ conns' = Append(conns, NewConn(bsc_url))
    /\ w3' = Len(conns) + 1
    /\ log' = Append(log, Event("connect_with_middleware", "Web3", Len(conns) + 1, TRUE))
    /\ pc' = "cwm_65"
    /\ UNCHANGED <<file, out, exc, d, address, abi, checksum_address,
                   contract, w3_eth, w3_bnb, contract_bnb>>

\* line 65 without the assertion: the answer is ignored
connect_with_middleware_verify_no_assert ==
    /\ pc = "cwm_65"
    /\ \E live \in BOOLEAN :
         log' = Append(log, Event("connect_with_middleware", "is_connected", w3, live))
    /\ pc' = "cwm_69"
    /\ UNCHANGED <<file, conns, out, exc, w3, d, address, abi, checksum_address,
                   contract, w3_eth, w3_bnb, contract_bnb>>

\* line 65: assert w3.is_connected()
connect_with_middleware_verify ==
    /\ pc = "cwm_65"
    /\ \E live \in BOOLEAN :
         /\ log' = Append(log, Event("connect_with_middleware", "is_connected", w3, live))
         /\ IF live
              THEN pc' = "cwm_69" /\ UNCHANGED exc
              ELSE Raise("AssertionError", "connect_with_middleware", 65)
    /\ UNCHANGED <<file, conns, out, w3, d, address, abi, checksum_address,
                   contract, w3_eth, w3_bnb, contract_bnb>>

\* line 69: w3.middleware_onion.inject(ExtraDataToPOAMiddleware, layer=0)
connect_with_middleware_inject ==
    /\ pc = "cwm_69"
    /\ conns' = [conns EXCEPT ![w3].onion = inject(@, ExtraDataToPOAMiddleware, 0)]
    /\ log' = Append(log, Event("connect_with_middleware", "inject", w3, TRUE))
    /\ pc' = "cwm_72"
    /\ UNCHANGED <<file, out, exc, w3, d, address, abi, checksum_address,
                   contract, w3_eth, w3_bnb, contract_bnb>>

\* line 72: checksum_address = Web3.to_checksum_address(address)
connect_with_middleware_checksum ==
    /\ pc = "cwm_72"
    /\ IF IsValidAddress(address)
         THEN /\ checksum_address' = to_checksum_address(address)
              /\ pc' = "cwm_75"
              /\ UNCHANGED exc
         ELSE /\ Raise("ValueError", "connect_with_middleware", 72)
              /\ UNCHANGED checksum_address
    /\ UNCHANGED <<file, conns, log, out, w3, d, address, abi,
                   contract, w3_eth, w3_bnb, contract_bnb>>

\* line 75 binding the raw address of the descriptor
connect_with_middleware_contract_raw_address ==
    /\ pc = "cwm_75"
    /\ IF validate_abi(abi)
         THEN /\ contract' = [w3 |-> w3, address |-> address, abi |-> abi]
              /\ pc' = "cwm_77"
              /\ UNCHANGED exc
         ELSE /\ Raise("ValueError", "connect_with_middleware", 75)
              /\ UNCHANGED contract
    /\ UNCHANGED <<file, conns, log, out, w3, d, address, abi, checksum_address,
                   w3_eth, w3_bnb, contract_bnb>>

\* line 75 building the contract on the mainnet connection
connect_with_middleware_contract_other_w3 ==
    /\ pc = "cwm_75"
    /\ IF validate_abi(abi)
         THEN /\ contract' = [w3 |-> w3_eth, address |-> checksum_address, abi |-> abi]
              /\ pc' = "cwm_77"
              /\ UNCHANGED exc
         ELSE /\ Raise("ValueError", "connect_with_middleware", 75)
              /\ UNCHANGED contract
    /\ UNCHANGED <<file, conns, log, out, w3, d, address, abi, checksum_address,
                   w3_eth, w3_bnb, contract_bnb>>

\* line 75: contract = w3.eth.contract(address=checksum_address, abi=abi)
connect_with_middleware_contract ==
    /\ pc = "cwm_75"
    /\ IF validate_abi(abi)
         THEN /\ contract' = [w3 |-> w3, address |-> checksum_address, abi |-> abi]
              /\ pc' = "cwm_77"
              /\ UNCHANGED exc
         ELSE /\ Raise("ValueError", "connect_with_middleware", 75)
              /\ UNCHANGED contract
    /\ UNCHANGED <<file, conns, log, out, w3, d, address, abi, checksum_address,
                   w3_eth, w3_bnb, contract_bnb>>

\* line 77 and the assignment of line 102
connect_with_middleware_return ==
    /\ pc = "cwm_77"
    /\ w3_bnb' = w3
    /\ contract_bnb' = contract
    /\ pc' = "main_103"
    /\ UNCHANGED <<file, conns, log, out, exc, w3, d, address, abi,
                   checksum_address, contract, w3_eth>>

(* ---------------- entry point, testnet part ---------------- *)
\* line 103: print(w3_bnb.is_connected())
main_print_bnb_connected ==
    /\ pc = "main_103"
    /\ \E live \in BOOLEAN :
         /\ log' = Append(log, Event("main", "is_connected", w3_bnb, live))
         /\ out' = Append(out, IF live THEN "Connected to BNB testnet: True"
                                       ELSE "Connected to BNB testnet: False")
    /\ pc' = "main_104"
    /\ UNCHANGED <<file, conns, exc, w3, d, address, abi, checksum_address,
                   contract, w3_eth, w3_bnb, contract_bnb>>

\* lines 104-106: chain id, then contract address and ABI size
main_bnb_chain_id ==
    /\ pc = "main_104"
    /\ \E ok \in BOOLEAN :
         /\ log' = Append(log, Event("main", "chain_id", w3_bnb, ok))
         /\ IF ok
              THEN /\ out' = out \o <<"Chain ID", "Contract address", "Contract has functions/events">>
                   /\ pc' = "main_110"
                   /\ UNCHANGED exc
              ELSE /\ Raise("RequestError", "main", 104)
                   /\ UNCHANGED out
    /\ UNCHANGED <<file, conns, w3, d, address, abi, checksum_address,
                   contract, w3_eth, w3_bnb, contract_bnb>>

\* the ways contract_bnb.functions.merkleRoot().call() can end
ReadOutcomes(c) ==
    IF \E i \in 1..Len(c.abi) : c.abi[i] = "merkleRoot"
      THEN {"returned", "reverted", "request failed"}
      ELSE {"undefined function"}

\* line 110 outside any try: a failed read is an uncaught exception
main_try_read_uncaught ==
    /\ pc = "main_110"
    /\ \E r \in ReadOutcomes(contract_bnb) :
         /\ log' = Append(log, Event("main", r, contract_bnb.w3, r = "returned"))
         /\ IF r = "returned"
              THEN pc' = "main_111" /\ UNCHANGED exc
              ELSE Raise("ContractError", "main", 110)
    /\ UNCHANGED <<file, conns, out, w3, d, address, abi, checksum_address,
                   contract, w3_eth, w3_bnb, contract_bnb>>

\* line 110, inside try: merkle_root = contract_bnb.functions.merkleRoot().call()
main_try_read ==
    /\ pc = "main_110"
    /\ \E r \in ReadOutcomes(contract_bnb) :
         /\ log' = Append(log, Event("main", r, contract_bnb.w3, r = "returned"))
         /\ pc' = IF r = "returned" THEN "main_111" ELSE "main_113"
    /\ UNCHANGED <<file, conns, out, exc, w3, d, address, abi, checksum_address,
                   contract, w3_eth, w3_bnb, contract_bnb>>

\* line 111, inside try: print(merkle_root.hex()); a value without hex() raises
main_print_merkle_root ==
    /\ pc = "main_111"
    /\ \E hexable \in BOOLEAN :
         IF hexable
           THEN /\ out' = Append(out, "Contract merkleRoot")
                /\ pc' = "main_115"
                /\ UNCHANGED log
           ELSE /\ log' = Append(log, Event("main", "hex failed", contract_bnb.w3, FALSE))
                /\ pc' = "main_113"
                /\ UNCHANGED out
    /\ UNCHANGED <<file, conns, exc, w3, d, address, abi, checksum_address,
                   contract, w3_eth, w3_bnb, contract_bnb>>

\* lines 112-113: except Exception: print the note
main_except ==
    /\ pc = "main_113"
    /\ out' = Append(out, "Note: Could not read merkleRoot")
    /\ pc' = "main_115"
    /\ UNCHANGED <<file, conns, log, exc, w3, d, address, abi, checksum_address,
                   contract, w3_eth, w3_bnb, contract_bnb>>

\* lines 115-118: the final banner
main_banner ==
    /\ pc = "main_115"
    /\ out' = Append(out, "All connections successful!")
    /\ pc' = "done"
    /\ UNCHANGED <<file, conns, log, exc, w3, d, address, abi, checksum_address,
                   contract, w3_eth, w3_bnb, contract_bnb>>

Next ==
    \/ main_call_connect_to_eth
    \/ connect_to_eth_construct
    \/ connect_to_eth_verify
    \/ connect_to_eth_return
    \/ main_print_eth_connected
    \/ main_eth_chain_id
    \/ main_eth_get_block
    \/ main_call_connect_with_middleware
    \/ connect_with_middleware_load
    \/ connect_with_middleware_bsc
    \/ connect_with_middleware_address
    \/ connect_with_middleware_abi
    \/ connect_with_middleware_construct
    \/ connect_with_middleware_verify
    \/ connect_with_middleware_inject
    \/ connect_with_middleware_checksum
    \/ connect_with_middleware_contract
    \/ connect_with_middleware_return
    \/ main_print_bnb_connected
    \/ main_bnb_chain_id
    \/ main_try_read
    \/ main_print_merkle_root
    \/ main_except
    \/ main_banner

Spec == Init /\ [][Next]_vars
\* the interpreter runs the script to its end: a statement that can run, runs
FairSpec == Spec /\ WF_vars(Next)

TypeOK ==
    /\ pc \in {"main_82", "cte_29", "cte_32", "cte_34", "main_87", "main_88",
               "main_91", "main_95", "cwm_48", "cwm_50", "cwm_51", "cwm_52",
               "cwm_62", "cwm_65", "cwm_69", "cwm_72", "cwm_75", "cwm_77",
               "main_103", "main_104", "main_110", "main_111", "main_113",
               "main_115", "done", "crashed"}
    /\ Len(conns) <= 2
    /\ w3 \in 0..Len(conns)
    /\ (pc = "crashed") = (exc # NoExc)

(* ---------------- vocabulary of the properties ---------------- *)
cte == "connect_to_eth"
cwm == "connect_with_middleware"
Banner == "All connections successful!"
Note == "Note: Could not read merkleRoot"

Logged(e) == \E i \in 1..Len(log) : log[i] = e
Printed(line) == \E i \in 1..Len(out) : out[i] = line
Called(fn) == Logged(Event(fn, "call", None, TRUE))
\* positions of the log where call fn did op
Ops(fn, op) == {i \in 1..Len(log) : log[i].call = fn /\ log[i].op = op}
\* call fn got a false answer from its liveness check
LivenessFalse(fn) == \E i \in Ops(fn, "is_connected") : ~log[i].ok
\* the connection c was built by fn and its liveness check, made right after
\* the construction, answered true
BuiltLive(fn, c) ==
    \E i \in 2..Len(log) : /\ log[i - 1] = Event(fn, "Web3", c, TRUE)
                           /\ log[i] = Event(fn, "is_connected", c, TRUE)
FailedIn(fn) == pc = "crashed" /\ exc.fn = fn
HasBsc == file.state = "ok" /\ "bsc" \in DOMAIN file.doc
HasFields == HasBsc /\ {"address", "abi"} \subseteq DOMAIN file.doc["bsc"]
\* EIP-55: c spells the same digits as a, and a letter of c is upper case
\* exactly when the digest nibble at its position is 8 or more
IsChecksumFormOf(c, a) ==
    /\ Len(c) = Len(a)
    /\ \A i \in 1..Len(a) :
         /\ Lower(c[i]) = Lower(a[i])
         /\ (c[i] \in UpperHex) <=>
              (Lower(a[i]) \in {"a", "b"} /\ HashNibble(to_normalized_address(a), i) >= 8)

(* ---------------- C1 ---------------- *)
\* C1: connect_to_eth hands a connection handle to its caller only if the
\* liveness check made right after the construction answered true; when the
\* check answers false the call ends with an AssertionError raised at line 32
\* and the caller holds no handle.
C1_HandleOnlyIfLive ==
    /\ w3_eth # None => BuiltLive(cte, w3_eth)
    /\ pc = "cte_34" => BuiltLive(cte, w3)
    /\ LivenessFalse(cte) =>
         /\ pc = "crashed"
         /\ exc = [type |-> "AssertionError", fn |-> cte, line |-> 32]
         /\ w3_eth = None

C1_Witness ==
    /\ LivenessFalse(cte)
    /\ FailedIn(cte)
    /\ exc.type = "AssertionError"
    /\ w3_eth = None

(* ---------------- C2 ---------------- *)
\* C2: with a descriptor that parses but has no "bsc" key,
\* connect_with_middleware fails with the KeyError of line 50 before anything
\* touches the network: the call constructs no connection and makes no
\* liveness round trip.
C2_MissingKeyFailsBeforeNetwork ==
    (file.state = "ok" /\ "bsc" \notin DOMAIN file.doc) =>
        /\ Ops(cwm, "Web3") = {}
        /\ Ops(cwm, "is_connected") = {}
        /\ \A i \in 1..Len(conns) : conns[i].url # bsc_url
        /\ pc \in {"cwm_50", "crashed"}
        /\ pc = "crashed" => exc = [type |-> "KeyError", fn |-> cwm, line |-> 50]
        /\ w3_bnb = None /\ contract_bnb = NoContract

C2_Witness ==
    /\ file.state = "ok"
    /\ "bsc" \notin DOMAIN file.doc
    /\ FailedIn(cwm)
    /\ exc.type = "KeyError"
    /\ Ops(cwm, "Web3") = {}

(* ---------------- C3 ---------------- *)
\* C3: a contract handle returned by connect_with_middleware is bound to the
\* checksum-cased form of the descriptor's address, whatever the case of the
\* input letters, and the conversion of line 72 rejects only invalid addresses.
C3_BoundAddressIsChecksum ==
    /\ contract_bnb # NoContract =>
         /\ HasFields
         /\ IsValidAddress(file.doc["bsc"]["address"])
         /\ IsChecksumFormOf(contract_bnb.address, file.doc["bsc"]["address"])
    /\ (pc = "crashed" /\ exc.line = 72) =>
         (HasFields /\ ~IsValidAddress(file.doc["bsc"]["address"]))

\* a returned handle whose input address was mixed case and not already in
\* checksum form
C3_Witness ==
    /\ pc = "main_103"
    /\ contract_bnb # NoContract
    /\ \E i \in 1..AddrLen : file.doc["bsc"]["address"][i] \in UpperHex
    /\ \E i \in 1..AddrLen : file.doc["bsc"]["address"][i] \in {"a", "b"}
    /\ contract_bnb.address # file.doc["bsc"]["address"]

(* ---------------- C4 ---------------- *)
\* C4: connect_with_middleware returns its pair only if the liveness check on
\* the testnet connection answered true; when it answers false the call ends
\* with the AssertionError of line 65, the middleware is not injected into
\* that connection and no contract handle is built.
C4_PairOnlyIfLive ==
    /\ w3_bnb # None => BuiltLive(cwm, w3_bnb)
    /\ pc = "cwm_77" => BuiltLive(cwm, w3)
    /\ LivenessFalse(cwm) =>
         /\ pc = "crashed"
         /\ exc = [type |-> "AssertionError", fn |-> cwm, line |-> 65]
         /\ Ops(cwm, "inject") = {}
         /\ conns[w3].onion = DefaultOnion
         /\ contract = NoContract
         /\ w3_bnb = None /\ contract_bnb = NoContract

C4_Witness ==
    /\ LivenessFalse(cwm)
    /\ FailedIn(cwm)
    /\ exc.type = "AssertionError"
    /\ conns[w3].url = bsc_url

(* ---------------- C5 ---------------- *)
ReadFailed == \E i \in 1..Len(log) :
                 log[i].op \in {"reverted", "undefined function", "request failed", "hex failed"}

\* C5: in the entry point a failed optional read (a revert, a function the ABI
\* does not define, a failed request, a value without hex()) never ends the
\* run as an uncaught exception: the note is printed and the run goes on to
\* print the final banner.
C5_ReadFailureIsCaught ==
    /\ [](ReadFailed => pc # "crashed" /\ exc = NoExc)
    /\ [](ReadFailed /\ pc \in {"main_115", "done"} => Printed(Note))
    /\ ReadFailed ~> (pc = "done" /\ out[Len(out)] = Banner)

C5_Witness ==
    /\ pc = "done"
    /\ \E i \in 1..Len(log) : log[i].op \in {"reverted", "undefined function"}
    /\ Printed(Note)
    /\ out[Len(out)] = Banner

(* ---------------- C6 ---------------- *)
\* C6: in every pair returned by connect_with_middleware the contract handle
\* is bound to the connection returned with it: the connection built in that
\* call on the testnet URL, whose liveness check passed and whose onion has
\* the proof-of-authority middleware at layer 0; it is never the mainnet
\* connection.
C6_ContractSharesConnection ==
    w3_bnb # None =>
        /\ contract_bnb # NoContract
        /\ contract_bnb.w3 = w3_bnb
        /\ contract_bnb.w3 # w3_eth
        /\ BuiltLive(cwm, w3_bnb)
        /\ conns[w3_bnb].url = bsc_url
        /\ conns[w3_bnb].onion[1] = ExtraDataToPOAMiddleware
        /\ Len(conns[w3_bnb].onion) = Len(DefaultOnion) + 1
        /\ conns[w3_eth].onion = DefaultOnion

C6_Witness ==
    /\ pc = "main_103"
    /\ w3_bnb # None
    /\ w3_eth # None
    /\ contract_bnb.w3 = w3_bnb

(* ---------------- C7 ---------------- *)
\* call fn is over: it returned or it raised
Ended(fn) ==
    \/ FailedIn(fn)
    \/ fn = cte /\ w3_eth # None
    \/ fn = cwm /\ w3_bnb # None
\* call fn raised while reading the descriptor, lines 48-52
FailedLoading(fn) == FailedIn(fn) /\ exc.line \in 48..52

\* C7 as stated: every call of either connector that is over has made exactly
\* one liveness round trip.
C7_ExactlyOneTripPerCall ==
    \A fn \in {cte, cwm} : Ended(fn) => Cardinality(Ops(fn, "is_connected")) = 1

\* C7 amended: a call of either connector constructs at most one connection
\* and makes at most one liveness round trip, exactly one unless it failed
\* while reading the descriptor (then none), and a false answer is the last
\* thing the call does before it fails.
C7_AtMostOneTripNoRetry ==
    \A fn \in {cte, cwm} :
        /\ Cardinality(Ops(fn, "is_connected")) <= 1
        /\ Cardinality(Ops(fn, "Web3")) <= 1
        /\ (Ended(fn) /\ ~FailedLoading(fn)) => Cardinality(Ops(fn, "is_connected")) = 1
        /\ FailedLoading(fn) => (Ops(fn, "is_connected") = {} /\ Ops(fn, "Web3") = {})
        /\ LivenessFalse(fn) =>
             /\ FailedIn(fn)
             /\ log[Len(log)].op = "is_connected" /\ ~log[Len(log)].ok

C7_Witness ==
    /\ FailedIn(cwm)
    /\ LivenessFalse(cwm)
    /\ Cardinality(Ops(cwm, "is_connected")) = 1
    /\ Cardinality(Ops(cte, "is_connected")) = 1

(* ---------------- C8 ---------------- *)
\* C8: the ABI bound into a returned contract handle has as many entries as
\* the "abi" array of the descriptor's "bsc" entry.
C8_AbiLengthPreserved ==
    /\ contract_bnb # NoContract =>
         Len(contract_bnb.abi) = Len(file.doc["bsc"]["abi"])
    /\ contract # NoContract =>
         Len(contract.abi) = Len(file.doc["bsc"]["abi"])

C8_Witness ==
    /\ pc = "main_103"
    /\ contract_bnb # NoContract
    /\ Len(file.doc["bsc"]["abi"]) = 2
    /\ file.doc["bsc"]["abi"][1] # file.doc["bsc"]["abi"][2]

(* ---------------- C9 ---------------- *)
\* the mainnet connection or a mainnet chain query failed
MainnetFailed ==
    \/ LivenessFalse(cte)
    \/ \E i \in 1..Len(log) : /\ log[i].call = "main"
                              /\ log[i].op \in {"chain_id", "get_block"}
                              /\ log[i].conn = w3_eth
                              /\ ~log[i].ok
\* a testnet chain query of the entry point failed
TestnetQueryFailed ==
    \E i \in 1..Len(log) : /\ log[i].call = "main"
                           /\ log[i].op = "chain_id"
                           /\ log[i].conn = w3_bnb
                           /\ ~log[i].ok
\* the descriptor cannot give a contract handle
DescriptorBad ==
    /\ file.state # "unread"
    /\ \/ ~HasFields
       \/ ~IsValidAddress(file.doc["bsc"]["address"])
       \/ ~validate_abi(file.doc["bsc"]["abi"])
ConnectorFailed ==
    \/ LivenessFalse(cte) \/ LivenessFalse(cwm)
    \/ DescriptorBad /\ pc \notin {"cwm_50", "cwm_51", "cwm_52", "cwm_62", "cwm_65",
                                   "cwm_69", "cwm_72", "cwm_75"}

\* C9: in the entry point a failure outside the guarded read ends the run:
\* after a failed mainnet connection or mainnet chain query
\* connect_with_middleware is never called, and after a failure of either
\* connector (or of a chain query) the final banner is never printed.
C9_FailuresAreFatal ==
    /\ MainnetFailed => (~Called(cwm) /\ pc = "crashed")
    /\ (ConnectorFailed \/ MainnetFailed \/ TestnetQueryFailed) =>
         (pc = "crashed" /\ ~Printed(Banner))
    /\ pc = "crashed" => (exc # NoExc /\ ~Printed(Banner))

C9_Witness ==
    /\ pc = "crashed"
    /\ exc.fn = "main"
    /\ exc.line \in {88, 91}
    /\ w3_eth # None
    /\ ~Called(cwm)

(* ---------------- C10 ---------------- *)
\* the connection of the running call is built, live and has the middleware
ConnectedAndInjected ==
    /\ BuiltLive(cwm, w3)
    /\ Logged(Event(cwm, "inject", w3, TRUE))
    /\ conns[w3].onion[1] = ExtraDataToPOAMiddleware

\* C10: connect_with_middleware validates the address only after it has
\* constructed the connection, passed the liveness check and injected the
\* middleware: a descriptor with the three fields and an invalid address does
\* not fail while the descriptor is read; it fails at line 65 or at line 72,
\* and no contract handle is ever built.
C10_AddressValidatedAfterConnect ==
    /\ (HasFields /\ ~IsValidAddress(file.doc["bsc"]["address"])) =>
         /\ contract = NoContract /\ contract_bnb = NoContract
         /\ pc \in {"cwm_50", "cwm_51", "cwm_52", "cwm_62", "cwm_65", "cwm_69",
                    "cwm_72", "crashed"}
         /\ pc = "crashed" =>
              \/ exc = [type |-> "AssertionError", fn |-> cwm, line |-> 65]
              \/ /\ exc = [type |-> "ValueError", fn |-> cwm, line |-> 72]
                 /\ ConnectedAndInjected
    /\ (pc = "crashed" /\ exc.type = "ValueError") => ConnectedAndInjected
    /\ checksum_address # <<>> => ConnectedAndInjected

C10_Witness ==
    /\ HasFields
    /\ ~IsValidAddress(file.doc["bsc"]["address"])
    /\ pc = "crashed"
    /\ exc = [type |-> "ValueError", fn |-> cwm, line |-> 72]
    /\ ConnectedAndInjected
====
